---- MODULE Spec2Model ----
(***************************************************************************)
(* photo-sync: the sync ledger (state.py), the per-photo sync decision     *)
(* (cli/sync.py, exporter.py), the album mapper (mapper.py, config.py) and *)
(* the output path renderer (path.py).                                     *)
(*                                                                         *)
(* Text is modelled as a sequence of one-character strings wherever the    *)
(* code looks inside it (paths, album names, slugs, categories); keys that *)
(* the code only compares for equality (uuids, album names of the ledger)  *)
(* are plain strings.                                                      *)
(***************************************************************************)
EXTENDS Integers, Sequences, FiniteSets, TLC

VARIABLES
    rows,       \* synced_photos as seen through the open connection
    audit,      \* audit_log as seen through the open connection
    drows,      \* synced_photos as committed to the database file
    daudit,     \* audit_log as committed to the database file
    clock,      \* datetime.now(): one tick per call
    last,       \* the last SyncState call made, its arguments and outcome
    src,        \* photo library: uuid -> content of the original file
    outfiles,   \* repository: relative output path -> content of the file
    res,        \* the last _sync_photo call, its arguments and outcome
    raw,        \* the [sync] table of config.toml
    cfg,        \* the Config load_config built from it
    mres,       \* the last resolve_album call: album name and result
    pres,       \* the last render_output_path call: arguments and result
    rres,       \* the last resolve_safe_path call: arguments and result
    sres,       \* the last slugify call: argument and result
    xres,       \* the last resize of export_photo: dimensions and result
    run,        \* the sync command: options, position, counters and outcome
    prev        \* the sync commands that have ended, oldest first

storeVars == <<rows, audit, drows, daudit, clock, last>>
syncVars == <<src, outfiles, res>>
pureVars == <<raw, cfg, mres, pres, rres, sres, xres>>
runVars == <<run, prev>>
vars == <<rows, audit, drows, daudit, clock, last, src, outfiles, res,
          raw, cfg, mres, pres, rres, sres, xres, run, prev>>

(***************************************************************************)
(* Bounds                                                                  *)
(***************************************************************************)
\* number of datetime.now() calls (ledger writes) in one behaviour
MaxClock == 2
\* number of record_sync calls made by _sync_photo in one behaviour
MaxExports == 2
\* number of sync commands run one after the other in one behaviour
MaxRuns == 2
\* length of an album name
MaxNameLen == 2
\* number of rules in [sync.patterns]
MaxRules == 2
\* number of tokens in an output pattern
MaxTemplateLen == 2
\* length of a category, album slug or filename handed to render_output_path
MaxValueLen == 2
\* length of the relative path handed to resolve_safe_path
MaxRelLen == 5
\* length of the text handed to slugify
MaxSlugLen == 4
\* width and height of a picture, and max_width, in pixels
MaxDim == 5

(***************************************************************************)
(* The ledger: state.py                                                    *)
(***************************************************************************)
Uuids == {"u1", "u2"}
AlbumNames == {"A", "B"}
\* the (photo_uuid, album_name) pairs the library holds
Keys == {<<"u1", "A">>, <<"u1", "B">>, <<"u2", "A">>}

\* file contents: 0 is a file Pillow cannot open, 1 is an original as the
\* library holds it, 2 is a file as Pillow writes it
Contents == 0..2
\* hashlib.sha256(...).hexdigest(): injective on the contents
compute_checksum(c) == <<"sha256", c>>
Checksums == {compute_checksum(c) : c \in 1..2}

Categories == {<<"e">>, <<"s">>}
ApiPaths == {<<"e", "/", "x", "/", "f">>, <<"s", "/", "x", "/", "f">>}

\* how far a write got before sqlite3 raised:
\*   none        no failure, commit() returned
\*   stmt1       the first execute() raised, transaction left as it was
\*   stmt2       the second execute() raised, the first statement pending
\*   commit      commit() raised, both statements pending
\*   rolled_back sqlite rolled the open transaction back on the error
Faults == {"none", "stmt1", "stmt2", "commit", "rolled_back"}

SyncRecord(u, a, cat, path, sum, now) ==
    [photo_uuid |-> u, album_name |-> a, category |-> cat,
     output_path |-> path, checksum |-> sum, synced_at |-> now]

HasKey(r, u, a) == r.photo_uuid = u /\ r.album_name = a

is_synced(t, u, a) == \E r \in t : HasKey(r, u, a)

None == <<"None">>

get_checksum(t, u, a) ==
    IF \E r \in t : HasKey(r, u, a)
    THEN (CHOOSE r \in t : HasKey(r, u, a)).checksum
    ELSE None

get_records_by_category(t, cat) == {r \in t : r.category = cat}

count(t) == Cardinality(t)

\* INSERT with no conflict target: a second row for the same key
UpsertNoKey(t, u, a, cat, path, sum, now) ==
    t \cup {SyncRecord(u, a, cat, path, sum, now)}

\* INSERT ... ON CONFLICT(photo_uuid, album_name) DO UPDATE SET
\*     checksum, output_path, synced_at
Upsert(t, u, a, cat, path, sum, now) ==
    IF is_synced(t, u, a)
    THEN {IF HasKey(r, u, a)
          THEN [r EXCEPT !.checksum = sum, !.output_path = path,
                         !.synced_at = now]
          ELSE r : r \in t}
    ELSE t \cup {SyncRecord(u, a, cat, path, sum, now)}

\* DELETE FROM synced_photos WHERE photo_uuid = ?
DeleteUuid(t, u, a) == {r \in t : r.photo_uuid # u}

\* DELETE FROM synced_photos WHERE photo_uuid = ? AND album_name = ?
Delete(t, u, a) == {r \in t : ~HasKey(r, u, a)}

AuditEntry(now, action, detail) ==
    [timestamp |-> now, action |-> action, detail |-> detail]

\* the two statements and the commit of one write, stopped at `fault`
Transact(newRows, newAudit, fault) ==
    /\ clock' = clock + 1
    /\ CASE fault = "none" ->
              /\ rows' = newRows /\ audit' = newAudit
              /\ drows' = newRows /\ daudit' = newAudit
         [] fault = "stmt1" ->
              UNCHANGED <<rows, audit, drows, daudit>>
         [] fault = "stmt2" ->
              /\ rows' = newRows
              /\ UNCHANGED <<audit, drows, daudit>>
         [] fault = "commit" ->
              /\ rows' = newRows /\ audit' = newAudit
              /\ UNCHANGED <<drows, daudit>>
         [] fault = "rolled_back" ->
              /\ rows' = drows /\ audit' = daudit
              /\ UNCHANGED <<drows, daudit>>

\* record_sync without its commit()
record_sync_uncommitted(u, a, cat, path, sum, fault) ==
    Transact(Upsert(rows, u, a, cat, path, sum, clock),
             Append(audit, AuditEntry(clock, "sync", <<u, "->", path>>)),
             IF fault = "none" THEN "commit" ELSE fault)

record_sync(u, a, cat, path, sum, fault) ==
    Transact(Upsert(rows, u, a, cat, path, sum, clock),
             Append(audit, AuditEntry(clock, "sync", <<u, "->", path>>)),
             fault)

remove_record(u, a, fault) ==
    Transact(Delete(rows, u, a),
             Append(audit, AuditEntry(clock, "remove", <<u, "from", a>>)),
             fault)

\* how SyncState(...) may fail: mkdir raises, or sqlite3 does
OpenFaults == {"none", "mkdir", "connect"}

\* the exception a call that failed at `fault` leaves SyncState with:
\* __init__ wraps sqlite3.Error and nothing else, no other method wraps
Raised(op, fault) ==
    CASE fault = "none" -> ""
      [] op = "reopen" /\ fault = "mkdir" -> "OSError"
      [] op = "reopen" -> "StateError"
      [] OTHER -> "sqlite3.Error"

NoCall == [op |-> "none", uuid |-> "", album |-> "", category |-> <<>>,
           output_path |-> <<>>, checksum |-> None, fault |-> "none",
           raised |-> "",
           existed |-> FALSE, old_checksum |-> None, old_category |-> <<>>,
           old_count |-> 0]

\* what the connection showed for the key when the call was made
Before(call, u, a) ==
    [call EXCEPT !.existed = is_synced(rows, u, a),
                 !.old_checksum = get_checksum(rows, u, a),
                 !.old_category =
                     IF is_synced(rows, u, a)
                     THEN (CHOOSE r \in rows : HasKey(r, u, a)).category
                     ELSE <<>>,
                 !.old_count = count(rows)]

RecordSyncCall(u, a, cat, path, sum, fault) ==
    Before([NoCall EXCEPT !.op = "record_sync", !.uuid = u, !.album = a,
                          !.category = cat, !.output_path = path,
                          !.checksum = sum, !.fault = fault,
                          !.raised = Raised("record_sync", fault)], u, a)

\* a caller of the ledger calls record_sync
RecordSync(u, a, cat, path, sum, fault) ==
    /\ clock < MaxClock
    /\ record_sync(u, a, cat, path, sum, fault)
    /\ last' = RecordSyncCall(u, a, cat, path, sum, fault)
    /\ UNCHANGED <<syncVars, pureVars, runVars>>

\* a caller of the ledger calls remove_record
RemoveRecord(u, a, fault) ==
    /\ clock < MaxClock
    /\ remove_record(u, a, fault)
    /\ last' = Before([NoCall EXCEPT !.op = "remove_record", !.uuid = u,
                                     !.album = a, !.fault = fault,
                                     !.raised = Raised("remove_record",
                                                       fault)], u, a)
    /\ UNCHANGED <<syncVars, pureVars, runVars>>

\* is_synced, get_checksum, get_all_records, get_records_by_category, count:
\* one execute(), which returns or raises
ReadOp(u, a, fault) ==
    /\ last' = Before([NoCall EXCEPT !.op = "read", !.uuid = u,
                                     !.album = a, !.fault = fault,
                                     !.raised = Raised("read", fault)], u, a)
    /\ UNCHANGED <<rows, audit, drows, daudit, clock>>
    /\ UNCHANGED <<syncVars, pureVars, runVars>>

\* close() without commit drops the open transaction; the next SyncState()
\* sees what the file holds, or fails
Reopen(fault) ==
    /\ rows' = drows
    /\ audit' = daudit
    /\ last' = [NoCall EXCEPT !.op = "reopen", !.fault = fault,
                              !.raised = Raised("reopen", fault)]
    /\ UNCHANGED <<drows, daudit, clock>>
    /\ UNCHANGED <<syncVars, pureVars, runVars>>

InitStore ==
    /\ rows = {} /\ audit = <<>>
    /\ drows = {} /\ daudit = <<>>
    /\ clock = 0
    /\ last = NoCall

(***************************************************************************)
(* Output paths: path.py                                                   *)
(***************************************************************************)
\* a template is a sequence of tokens: a literal character, one of the three
\* replacement fields, a replacement field str.format has no argument for
\* ("{other}") or a brace that opens no field ("{")
Fields == {"{category}", "{album_slug}", "{filename}"}
BadTokens == {"{other}", "{"}

RECURSIVE Flatten(_)
Flatten(ss) == IF ss = <<>> THEN <<>> ELSE Head(ss) \o Flatten(Tail(ss))

\* pattern.format(category=..., album_slug=..., filename=...)
Format(pattern, category, album_slug, filename) ==
    LET bad == {i \in 1..Len(pattern) : pattern[i] \in BadTokens}
        first == CHOOSE i \in bad : \A k \in bad : i <= k
        piece(tok) == CASE tok = "{category}" -> category
                        [] tok = "{album_slug}" -> album_slug
                        [] tok = "{filename}" -> filename
                        [] OTHER -> <<tok>>
    IN  IF bad # {}
        THEN [err |-> IF pattern[first] = "{other}" THEN "KeyError"
                      ELSE "ValueError",
              value |-> <<>>]
        ELSE [err |-> "",
              value |-> Flatten([i \in 1..Len(pattern) |-> piece(pattern[i])])]

\* rendered.startswith("..")
StartsDotDot(s) == Len(s) >= 2 /\ s[1] = "." /\ s[2] = "."

\* ".." in rendered
HasDotDot(s) == \E i \in 1..(Len(s) - 1) : s[i] = "." /\ s[i + 1] = "."

render_output_path(pattern, category, album_slug, filename) ==
    LET f == Format(pattern, category, album_slug, filename) IN
    IF f.err # "" THEN f
    ELSE IF HasDotDot(f.value) THEN [err |-> "PathError", value |-> <<>>]
    ELSE f

\* the components of a path, split at "/"
RECURSIVE Split(_, _)
Split(s, cur) ==
    IF s = <<>> THEN <<cur>>
    ELSE IF Head(s) = "/" THEN <<cur>> \o Split(Tail(s), <<>>)
    ELSE Split(Tail(s), Append(cur, Head(s)))

\* a tree without symbolic links
NoLinks == [p \in {} |-> <<>>]

\* Path.resolve(): "" and "." are dropped, a component that is a symbolic
\* link (links: canonical path of the link -> canonical path of its target)
\* is replaced by its target, ".." goes to the parent of what has been
\* resolved so far and stays at the root
RECURSIVE Normalize(_, _, _)
Normalize(links, comps, stack) ==
    IF comps = <<>> THEN stack
    ELSE LET c == Head(comps)
             pushed == Append(stack, c)
         IN
         IF c = <<>> \/ c = <<".">> THEN Normalize(links, Tail(comps), stack)
         ELSE IF c = <<".", ".">>
         THEN Normalize(links, Tail(comps),
                        IF stack = <<>> THEN stack
                        ELSE SubSeq(stack, 1, Len(stack) - 1))
         ELSE Normalize(links, Tail(comps),
                        IF pushed \in DOMAIN links THEN links[pushed]
                        ELSE pushed)

IsPrefix(s, t) == Len(s) <= Len(t) /\ SubSeq(t, 1, Len(s)) = s

\* cfg.repo_path / cfg.output_base, already resolved
OutputBase == <<<<"r">>, <<"o">>>>

\* base / relative: an absolute right operand replaces the left one
Join(base, relative) ==
    IF relative # <<>> /\ Head(relative) = "/"
    THEN Split(relative, <<>>) ELSE base \o Split(relative, <<>>)

\* checks the joined path as written, before resolve()
resolve_safe_path_unresolved(links, base, relative) ==
    IF IsPrefix(base, Join(base, relative))
    THEN [err |-> "", value |-> Normalize(links, Join(base, relative), <<>>)]
    ELSE [err |-> "PathError", value |-> <<>>]

\* puts a path that leaves the base directly under the base
resolve_safe_path_fallback(links, base, relative) ==
    LET resolved == Normalize(links, Join(base, relative), <<>>)
        base_resolved == Normalize(links, base, <<>>)
    IN  IF IsPrefix(base_resolved, resolved)
        THEN [err |-> "", value |-> resolved]
        ELSE [err |-> "",
              value |-> Append(base_resolved, resolved[Len(resolved)])]

resolve_safe_path(links, base, relative) ==
    LET resolved == Normalize(links, Join(base, relative), <<>>)
        base_resolved == Normalize(links, base, <<>>)
    IN  IF IsPrefix(base_resolved, resolved)
        THEN [err |-> "", value |-> resolved]
        ELSE [err |-> "PathError", value |-> <<>>]

\* sequences over a set, up to a length
SeqsUpTo(S, n) == UNION {[1..k -> S] : k \in 0..n}

Range(s) == {s[i] : i \in 1..Len(s)}

\* character classes of the re module, on the characters used here
IsSpace(c) == c = " "
IsWord(c) == c \notin {" ", "-", "!", ".", "/"}
Lower(c) == CASE c = "E" -> "e" [] c = "X" -> "x" [] c = "U" -> "u"
              [] OTHER -> c

\* str.strip(chars), str.strip()
RECURSIVE LStrip(_, _)
LStrip(s, chars) ==
    IF s # <<>> /\ Head(s) \in chars THEN LStrip(Tail(s), chars) ELSE s

RECURSIVE RStrip(_, _)
RStrip(s, chars) ==
    IF s # <<>> /\ s[Len(s)] \in chars
    THEN RStrip(SubSeq(s, 1, Len(s) - 1), chars) ELSE s

Strip(s, chars) == RStrip(LStrip(s, chars), chars)

\* re.sub(r"[...]+", rep, s) for a class given as a set of characters:
\* every maximal run of characters of the class becomes rep
RECURSIVE SubRuns(_, _, _)
SubRuns(s, class, rep) ==
    IF s = <<>> THEN <<>>
    ELSE IF Head(s) \in class
    THEN IF Len(s) > 1 /\ s[2] \in class
         THEN SubRuns(Tail(s), class, rep)
         ELSE rep \o SubRuns(Tail(s), class, rep)
    ELSE <<Head(s)>> \o SubRuns(Tail(s), class, rep)

\* slugify that collapses the hyphens before it replaces the whitespace
slugify_hyphens_first(text) ==
    LET t1 == Strip([i \in 1..Len(text) |-> Lower(text[i])], {" "})
        t2 == SelectSeq(t1, LAMBDA c : IsWord(c) \/ IsSpace(c) \/ c = "-")
        t3 == SubRuns(t2, {"-"}, <<"-">>)
    IN  Strip(SubRuns(t3, {" ", "_"}, <<"-">>), {"-"})

slugify(text) ==
    LET t1 == Strip([i \in 1..Len(text) |-> Lower(text[i])], {" "})
        t2 == SelectSeq(t1, LAMBDA c : IsWord(c) \/ IsSpace(c) \/ c = "-")
        t3 == SubRuns(t2, {" ", "_"}, <<"-">>)
    IN  Strip(SubRuns(t3, {"-"}, <<"-">>), {"-"})

(***************************************************************************)
(* Album mapping: mapper.py, config.py                                     *)
(***************************************************************************)
\* a regular expression is a sequence of tokens: "^", "$", ".", ".*" or a
\* literal character; does it match s from position j on
RECURSIVE MatchAt(_, _, _, _)
MatchAt(p, i, s, j) ==
    IF i > Len(p) THEN TRUE
    ELSE CASE p[i] = "^" -> j = 1 /\ MatchAt(p, i + 1, s, j)
           [] p[i] = "$" -> j = Len(s) + 1 /\ MatchAt(p, i + 1, s, j)
           [] p[i] = "." -> j <= Len(s) /\ MatchAt(p, i + 1, s, j + 1)
           [] p[i] = ".*" ->
                  \E k \in j..(Len(s) + 1) : MatchAt(p, i + 1, s, k)
           [] OTHER ->
                  j <= Len(s) /\ s[j] = p[i] /\ MatchAt(p, i + 1, s, j + 1)

\* re.search: a match starting anywhere
re_search(p, s) == \E j \in 1..(Len(s) + 1) : MatchAt(p, 1, s, j)

\* re.match: a match starting at the first character
re_match(p, s) == MatchAt(p, 1, s, 1)

\* a key that a table of the TOML file does not have
Absent == <<"absent">>

NameChars == {"E", "a", " "}
Names == SeqsUpTo(NameChars, MaxNameLen)
\* "" is a category the TOML file can give
MapCategories == {<<>>, <<"e">>, <<"s">>}
Regexes == {<<"^", "E", ".*">>, <<"a">>, <<".*">>}
\* the albums [sync.albums] may name, and what a table may hold
ExplicitNames == {<<"E">>, <<"a", " ">>}
RawMappings == [category : {<<>>, <<"e">>, Absent},
                slug : {<<"X">>, Absent}]

\* [sync.patterns] in the order of the file: a key occurs once
RawPatterns ==
    {r \in SeqsUpTo([pattern : Regexes, category : MapCategories], MaxRules) :
        \A i, k \in 1..Len(r) : r[i].pattern = r[k].pattern => i = k}

RawConfigs ==
    [albums : UNION {[D -> RawMappings] : D \in SUBSET ExplicitNames},
     patterns : RawPatterns]

NotLoaded == [err |-> "not loaded", album_mappings |-> <<>>,
              album_patterns |-> <<>>]

\* _parse_album_mappings and the [sync] part of load_config
load_config(r) ==
    IF \E n \in DOMAIN r.albums :
           r.albums[n].category = Absent \/ r.albums[n].slug = Absent
    THEN [NotLoaded EXCEPT !.err = "ConfigError"]
    ELSE [err |-> "", album_mappings |-> r.albums,
          album_patterns |-> r.patterns]

ResolvedMapping(name, category, slug, source) ==
    [album_name |-> name, category |-> category, slug |-> slug,
     source |-> source]

\* the indexes of the rules whose pattern matches the name
Matching(name, rules) ==
    {i \in 1..Len(rules) : re_match(rules[i].pattern, name)}

\* resolve_album that tries the patterns before the explicit mappings
resolve_album_patterns_first(name, config) ==
    LET m == Matching(name, config.album_patterns)
        first == CHOOSE i \in m : \A k \in m : i <= k
    IN  IF m # {}
        THEN ResolvedMapping(name, config.album_patterns[first].category,
                             slugify(name), "pattern")
        ELSE IF name \in DOMAIN config.album_mappings
        THEN ResolvedMapping(name, config.album_mappings[name].category,
                             config.album_mappings[name].slug, "explicit")
        ELSE ResolvedMapping(name, <<>>, slugify(name), "unmatched")

resolve_album(name, config) ==
    LET m == Matching(name, config.album_patterns)
        first == CHOOSE i \in m : \A k \in m : i <= k
    IN  IF name \in DOMAIN config.album_mappings
        THEN ResolvedMapping(name, config.album_mappings[name].category,
                             config.album_mappings[name].slug, "explicit")
        ELSE IF m # {}
        THEN ResolvedMapping(name, config.album_patterns[first].category,
                             slugify(name), "pattern")
        ELSE ResolvedMapping(name, <<>>, slugify(name), "unmatched")

NoResolve == [op |-> "none", name |-> <<>>,
              result |-> ResolvedMapping(<<>>, <<>>, <<>>, "")]

\* load_config() at the start of a command
LoadConfig ==
    /\ cfg = NotLoaded
    /\ cfg' = load_config(raw)
    /\ UNCHANGED <<raw, mres, pres, rres, sres, xres>>
    /\ UNCHANGED <<storeVars, syncVars, runVars>>

\* a command calls resolve_album for an album of the library
ResolveAlbum(name) ==
    /\ cfg.err = ""
    /\ mres' = [op |-> "resolve_album", name |-> name,
                result |-> resolve_album(name, cfg)]
    /\ UNCHANGED <<raw, cfg, pres, rres, sres, xres>>
    /\ UNCHANGED <<storeVars, syncVars, runVars>>

(***************************************************************************)
(* Calls of render_output_path                                             *)
(***************************************************************************)
TemplateTokens == Fields \cup BadTokens \cup {"."}
Templates == SeqsUpTo(TemplateTokens, MaxTemplateLen)
PathChars == {"a", "."}
PathValues == SeqsUpTo(PathChars, MaxValueLen)

NoRender == [op |-> "none", pattern |-> <<>>, category |-> <<>>,
             album_slug |-> <<>>, filename |-> <<>>,
             err |-> "", value |-> <<>>]

\* the call of render_output_path with the arguments held in pres
RenderOutputPath ==
    LET r == render_output_path(pres.pattern, pres.category,
                                pres.album_slug, pres.filename) IN
    /\ pres.op = "call"
    /\ pres' = [pres EXCEPT !.op = "render_output_path",
                            !.err = r.err, !.value = r.value]
    /\ UNCHANGED <<raw, cfg, mres, rres, sres, xres>>
    /\ UNCHANGED <<storeVars, syncVars, runVars>>

(***************************************************************************)
(* Calls of resolve_safe_path                                              *)
(***************************************************************************)
RelChars == {"a", "r", ".", "/"}
Relatives == SeqsUpTo(RelChars, MaxRelLen)
\* base directories, as sequences of components below the root
Bases == {<<<<"r">>, <<"o">>>>,
          <<<<"r">>>>,
          <<<<"r">>, <<"o">>, <<".", ".">>, <<"o">>>>}
\* the symbolic links of the tree: none; /r/o/a to a directory outside /r;
\* /r/o/a to its sibling /r/o/b; /r/o itself to /t
LinkTables == {NoLinks,
               [p \in {<<<<"r">>, <<"o">>, <<"a">>>>} |-> <<<<"e">>>>],
               [p \in {<<<<"r">>, <<"o">>, <<"a">>>>} |->
                    <<<<"r">>, <<"o">>, <<"b">>>>],
               [p \in {<<<<"r">>, <<"o">>>>} |-> <<<<"t">>>>]}

NoResolveSafe == [op |-> "none", links |-> NoLinks, base |-> <<>>,
                  relative |-> <<>>, err |-> "", value |-> <<>>]

\* the call of resolve_safe_path with the arguments held in rres
ResolveSafePath ==
    LET r == resolve_safe_path(rres.links, rres.base, rres.relative) IN
    /\ rres.op = "call"
    /\ rres' = [rres EXCEPT !.op = "resolve_safe_path",
                            !.err = r.err, !.value = r.value]
    /\ UNCHANGED <<raw, cfg, mres, pres, sres, xres>>
    /\ UNCHANGED <<storeVars, syncVars, runVars>>

(***************************************************************************)
(* Calls of slugify                                                        *)
(***************************************************************************)
SlugChars == {"E", "a", " ", "-", "_", "!"}
SlugTexts == SeqsUpTo(SlugChars, MaxSlugLen)

NoSlugify == [op |-> "none", text |-> <<>>, slug |-> <<>>, again |-> <<>>]

\* slugify(text), and slugify of what it returned
Slugify ==
    /\ sres.op = "call"
    /\ sres' = [sres EXCEPT !.op = "slugify",
                            !.slug = slugify(sres.text),
                            !.again = slugify(slugify(sres.text))]
    /\ UNCHANGED <<raw, cfg, mres, pres, rres, xres>>
    /\ UNCHANGED <<storeVars, syncVars, runVars>>

(***************************************************************************)
(* The resize of export_photo: exporter.py                                 *)
(***************************************************************************)
\* int(img.height * (max_width / img.width)): int() drops the fraction.  For
\* the dimensions tried here the two double operations give the floor of the
\* exact quotient (they first fall below it at 22 x 22 with max_width 15)
new_height(width, height, max_width) == (height * max_width) \div width

\* the size img.save writes, or the ExportError that export_photo makes of
\* the ValueError of Image.resize for a height of 0
resize(width, height, max_width) ==
    IF width > max_width
    THEN IF new_height(width, height, max_width) < 1
         THEN [err |-> "ExportError", width |-> 0, height |-> 0]
         ELSE [err |-> "", width |-> max_width,
               height |-> new_height(width, height, max_width)]
    ELSE [err |-> "", width |-> width, height |-> height]

Dims == 1..MaxDim

NoResize == [op |-> "none", width |-> 0, height |-> 0, max_width |-> 0,
             out |-> [err |-> "", width |-> 0, height |-> 0]]

\* export_photo opens a picture of the size held in xres and resizes it
ExportResize ==
    /\ xres.op = "call"
    /\ xres' = [xres EXCEPT !.op = "resize",
                            !.out = resize(xres.width, xres.height,
                                           xres.max_width)]
    /\ UNCHANGED <<raw, cfg, mres, pres, rres, sres>>
    /\ UNCHANGED <<storeVars, syncVars, runVars>>

NoRaw == [albums |-> <<>>, patterns |-> <<>>]

InitPure ==
    /\ raw = NoRaw
    /\ cfg = NotLoaded
    /\ mres = NoResolve
    /\ pres = NoRender
    /\ rres = NoResolveSafe
    /\ sres = NoSlugify
    /\ xres = NoResize

(***************************************************************************)
(* Export: exporter.py                                                     *)
(***************************************************************************)
\* the original is not there
Missing == -1
SrcContents == {Missing} \cup Contents

\* Image.open, resize, save with the configured format and quality: what
\* Pillow writes for a readable file.  The output is a new encoding of the
\* picture, so its bytes differ from an original's (1 -> 2); exporting a file
\* that Pillow wrote with the same settings gives the same bytes (2 -> 2).
Encode(c) == CASE c = 1 -> 2 [] c = 2 -> 2

\* how export_photo ends: it returns, Image.open raises, mkdir raises before
\* anything is written, or save raises and leaves a truncated file
ExportEnds(c) ==
    IF c = Missing \/ c = 0 THEN {"open"} ELSE {"ok", "mkdir", "save"}

\* the destination file after export_photo
Written(files, dest, c, end) ==
    IF end \in {"ok", "save"}
    THEN [q \in DOMAIN files \cup {dest} |->
             IF q = dest THEN (IF end = "ok" THEN Encode(c) ELSE 0)
             ELSE files[q]]
    ELSE files

(***************************************************************************)
(* The per-photo sync: cli/sync.py                                         *)
(***************************************************************************)
\* PhotoInfo: original_path is the file src[uuid]; one photo of the library
\* that is in two albums
SyncKeys == {<<"u1", "A">>, <<"u1", "B">>}
SrcUuids == {k[1] : k \in SyncKeys}
Photos == {[uuid |-> k[1], album_name |-> k[2], filename |-> <<"f">>] :
              k \in SyncKeys}

\* general.output_pattern, the default
DefaultPattern == <<"{category}", "/", "{album_slug}", "/", "{filename}">>

SyncCategories == {<<"e">>, <<".", ".">>}
SyncSlugs == {<<"x">>}

\* skips nothing
NeverSkip(force, synced, old, source) == FALSE

\* the skip decision without "not force"
SkipForced(force, synced, old, source) == synced /\ old = source

\* skips whenever the ledger has the key
SkipIfSynced(force, synced, old, source) == ~force /\ synced

\* if not force and state.is_synced(...): old_checksum == source_checksum
ShouldSkip(force, synced, old, source) ==
    ~force /\ synced /\ old = source

\* n flips at every call; source: the original's content at the call;
\* consulted: is_synced was called; dest: what resolve_safe_path returned;
\* changed: the skip decision found a row for the key and a stored checksum
\* other than the original's; transformed: export_photo was called;
\* recorded: record_sync was called
NoSync == [op |-> "none", n |-> 0, uuid |-> "", album |-> "",
           category |-> <<>>, dry_run |-> FALSE, force |-> FALSE, source |-> Missing,
           changed |-> FALSE,
           outcome |-> "",
           transformed |-> FALSE, export_end |-> "", recorded |-> FALSE,
           consulted |-> FALSE, dest |-> <<>>]

\* _sync_photo with record_sync in a finally: a failed export is recorded
sync_photo_records_failure(p, category, album_slug, dry_run, force) ==
    LET u == p.uuid
        a == p.album_name
        rel == render_output_path(DefaultPattern, category, album_slug,
                                  p.filename)
        dest == resolve_safe_path(NoLinks, OutputBase, rel.value)
        synced == is_synced(rows, u, a)
        call == [NoSync EXCEPT !.op = "sync_photo", !.n = 1 - res.n,
                    !.uuid = u, !.album = a, !.category = category,
                    !.dry_run = dry_run,
                    !.force = force, !.source = src[u]]
        reached == [call EXCEPT !.consulted = ~force, !.dest = dest.value]
        decided == [reached EXCEPT !.changed =
                        /\ ~force /\ synced
                        /\ get_checksum(rows, u, a)
                               # compute_checksum(src[u])]
        quiet == UNCHANGED <<rows, audit, drows, daudit, clock, last,
                             src, outfiles>>
    IN
    IF rel.err # ""
    THEN /\ res' = [call EXCEPT !.outcome = rel.err]
         /\ quiet
    ELSE IF dest.err # ""
    THEN /\ res' = [call EXCEPT !.outcome = dest.err]
         /\ quiet
    ELSE IF ~force /\ synced /\ src[u] = Missing
    THEN /\ res' = [reached EXCEPT !.outcome = "OSError"]
         /\ quiet
    ELSE IF ShouldSkip(force, synced, get_checksum(rows, u, a),
                       compute_checksum(src[u]))
    THEN /\ res' = [decided EXCEPT !.outcome = "skip"]
         /\ quiet
    ELSE IF dry_run
    THEN /\ res' = [decided EXCEPT !.outcome = "export"]
         /\ quiet
    ELSE \E end \in ExportEnds(src[u]) :
         /\ outfiles' = Written(outfiles, dest.value, src[u], end)
         /\ UNCHANGED src
         /\ IF end # "ok"
            THEN LET sum == compute_checksum(src[u]) IN
                 /\ record_sync(u, a, category, rel.value, sum, "none")
                 /\ last' = RecordSyncCall(u, a, category, rel.value, sum,
                                           "none")
                 /\ res' = [decided EXCEPT !.outcome = "ExportError",
                               !.transformed = TRUE,
                               !.export_end = end, !.recorded = TRUE]
            ELSE \E fault \in {"none", "rolled_back"} :
                 LET sum == compute_checksum(Encode(src[u])) IN
                 /\ record_sync(u, a, category, rel.value, sum, fault)
                 /\ last' = RecordSyncCall(u, a, category, rel.value, sum,
                                           fault)
                 /\ res' = [decided EXCEPT
                               !.outcome = IF fault = "none" THEN "export"
                                           ELSE "sqlite3.Error",
                               !.transformed = TRUE,
                               !.export_end = end, !.recorded = TRUE]

\* _sync_photo as sync() calls it; a sqlite3 error is not caught by sync()
\* and its finally closes the connection, which drops the open transaction
sync_photo(p, category, album_slug, dry_run, force) ==
    LET u == p.uuid
        a == p.album_name
        rel == render_output_path(DefaultPattern, category, album_slug,
                                  p.filename)
        dest == resolve_safe_path(NoLinks, OutputBase, rel.value)
        synced == is_synced(rows, u, a)
        call == [NoSync EXCEPT !.op = "sync_photo", !.n = 1 - res.n,
                    !.uuid = u, !.album = a, !.category = category,
                    !.dry_run = dry_run,
                    !.force = force, !.source = src[u]]
        reached == [call EXCEPT !.consulted = ~force, !.dest = dest.value]
        decided == [reached EXCEPT !.changed =
                        /\ ~force /\ synced
                        /\ get_checksum(rows, u, a)
                               # compute_checksum(src[u])]
        quiet == UNCHANGED <<rows, audit, drows, daudit, clock, last,
                             src, outfiles>>
    IN
    IF rel.err # ""
    THEN /\ res' = [call EXCEPT !.outcome = rel.err]
         /\ quiet
    ELSE IF dest.err # ""
    THEN /\ res' = [call EXCEPT !.outcome = dest.err]
         /\ quiet
    ELSE IF ~force /\ synced /\ src[u] = Missing
    THEN /\ res' = [reached EXCEPT !.outcome = "OSError"]
         /\ quiet
    ELSE IF ShouldSkip(force, synced, get_checksum(rows, u, a),
                       compute_checksum(src[u]))
    THEN /\ res' = [decided EXCEPT !.outcome = "skip"]
         /\ quiet
    ELSE IF dry_run
    THEN /\ res' = [decided EXCEPT !.outcome = "export"]
         /\ quiet
    ELSE \E end \in ExportEnds(src[u]) :
         /\ outfiles' = Written(outfiles, dest.value, src[u], end)
         /\ UNCHANGED src
         /\ IF end # "ok"
            THEN /\ res' = [decided EXCEPT !.outcome = "ExportError",
                               !.transformed = TRUE,
                               !.export_end = end]
                 /\ UNCHANGED <<rows, audit, drows, daudit, clock, last>>
            ELSE \E fault \in {"none", "rolled_back"} :
                 LET sum == compute_checksum(Encode(src[u])) IN
                 /\ record_sync(u, a, category, rel.value, sum, fault)
                 /\ last' = RecordSyncCall(u, a, category, rel.value, sum,
                                           fault)
                 /\ res' = [decided EXCEPT
                               !.outcome = IF fault = "none" THEN "export"
                                           ELSE "sqlite3.Error",
                               !.transformed = TRUE,
                               !.export_end = end, !.recorded = TRUE]

SyncPhoto(p, category, album_slug, dry_run, force) ==
    /\ sync_photo(p, category, album_slug, dry_run, force)
    /\ clock' <= MaxExports
    /\ UNCHANGED <<pureVars, runVars>>

\* the user edits, replaces or deletes an original in the photo library
EditSource(u, c) ==
    /\ src[u] # c
    /\ src' = [src EXCEPT ![u] = c]
    /\ UNCHANGED <<rows, audit, drows, daudit, clock, last, outfiles, res>>
    /\ UNCHANGED <<pureVars, runVars>>

NoFiles == [q \in {} |-> 0]

\* state: idle, running, done (sync returned) or aborted (an exception left
\* sync); ai, pi: the album and the photo the loops are at (pi = 0: the album
\* has not been fetched); processed: the photos handed to _sync_photo, in
\* order, with what came of each; vcs: what was staged and committed
NoRun == [state |-> "idle", dry_run |-> FALSE, force |-> FALSE,
          no_commit |-> FALSE, auto_commit |-> TRUE,
          target_albums |-> <<>>, ai |-> 0, pi |-> 0,
          exported_count |-> 0, skipped_count |-> 0, error_count |-> 0,
          exported_paths |-> <<>>, processed |-> <<>>, vcs |-> <<>>,
          raised |-> "", exit |-> -1]

Init ==
    /\ InitStore
    /\ src \in [SrcUuids -> {1, 2}]
    /\ outfiles = NoFiles
    /\ res = NoSync
    /\ run = NoRun
    /\ prev = <<>>
    /\ InitPure

Next ==
    \/ \E p \in Photos, cat \in SyncCategories, slug \in SyncSlugs,
          dry_run \in BOOLEAN, force \in BOOLEAN :
          SyncPhoto(p, cat, slug, dry_run, force)
    \/ \E u \in SrcUuids, c \in SrcContents : EditSource(u, c)

Spec == Init /\ [][Next]_vars

InitState ==
    /\ InitStore
    /\ src = [u \in SrcUuids |-> 1]
    /\ outfiles = NoFiles
    /\ res = NoSync
    /\ run = NoRun
    /\ prev = <<>>
    /\ InitPure

\* the callers of record_sync pass the path rendered for the category
NextState ==
    \/ \E k \in Keys, cat \in Categories, sum \in Checksums, f \in Faults :
          RecordSync(k[1], k[2], cat, cat \o <<"/", "x", "/", "f">>, sum, f)
    \/ \E k \in Keys, f \in Faults : RemoveRecord(k[1], k[2], f)
    \/ \E k \in Keys : ReadOp(k[1], k[2], "none")
    \/ Reopen("none")

SpecState == InitState /\ [][NextState]_vars

\* ledgers that earlier commands left: no row, a row for u1 in A recorded at
\* tick -2, and with it a row for u1 in B recorded at tick -1
SeededLedgers ==
    LET rowA == SyncRecord("u1", "A", <<"e">>, <<"e", "/", "x", "/", "f">>,
                           compute_checksum(2), -2)
        rowB == SyncRecord("u1", "B", <<"s">>, <<"s", "/", "x", "/", "f">>,
                           compute_checksum(2), -1)
        logA == AuditEntry(-2, "sync", <<"u1", "->", rowA.output_path>>)
        logB == AuditEntry(-1, "sync", <<"u1", "->", rowB.output_path>>)
    IN  {[rows |-> {}, audit |-> <<>>],
         [rows |-> {rowA}, audit |-> <<logA>>],
         [rows |-> {rowA, rowB}, audit |-> <<logA, logB>>]}

InitRemove ==
    /\ \E seed \in SeededLedgers :
          /\ rows = seed.rows /\ audit = seed.audit
          /\ drows = seed.rows /\ daudit = seed.audit
    /\ clock = 0
    /\ last = NoCall
    /\ src = [u \in SrcUuids |-> 1]
    /\ outfiles = NoFiles
    /\ res = NoSync
    /\ run = NoRun
    /\ prev = <<>>
    /\ InitPure

NextRemove ==
    \/ \E k \in Keys, f \in Faults : RemoveRecord(k[1], k[2], f)
    \/ \E k \in Keys, f \in {"none", "stmt1"} : ReadOp(k[1], k[2], f)
    \/ \E f \in OpenFaults : Reopen(f)

SpecRemove == InitRemove /\ [][NextRemove]_vars

InitIdle ==
    /\ InitStore
    /\ src = [u \in SrcUuids |-> 1]
    /\ outfiles = NoFiles
    /\ res = NoSync
    /\ run = NoRun
    /\ prev = <<>>

InitMapper ==
    /\ InitIdle
    /\ raw \in RawConfigs
    /\ cfg = NotLoaded
    /\ mres = NoResolve
    /\ pres = NoRender
    /\ rres = NoResolveSafe
    /\ sres = NoSlugify
    /\ xres = NoResize

NextMapper ==
    \/ LoadConfig
    \/ \E name \in Names : ResolveAlbum(name)

SpecMapper == InitMapper /\ [][NextMapper]_vars

InitPath ==
    /\ InitIdle
    /\ raw = NoRaw
    /\ cfg = NotLoaded
    /\ mres = NoResolve
    /\ rres = NoResolveSafe
    /\ sres = NoSlugify
    /\ xres = NoResize
    /\ \E pattern \in Templates, category \in PathValues,
          album_slug \in PathValues, filename \in PathValues :
          pres = [NoRender EXCEPT !.op = "call", !.pattern = pattern,
                                  !.category = category,
                                  !.album_slug = album_slug,
                                  !.filename = filename]

NextPath == RenderOutputPath

SpecPath == InitPath /\ [][NextPath]_vars

InitResolve ==
    /\ InitIdle
    /\ raw = NoRaw
    /\ cfg = NotLoaded
    /\ mres = NoResolve
    /\ pres = NoRender
    /\ sres = NoSlugify
    /\ xres = NoResize
    /\ \E links \in LinkTables, base \in Bases, relative \in Relatives :
          rres = [NoResolveSafe EXCEPT !.op = "call", !.links = links,
                                       !.base = base, !.relative = relative]

NextResolve == ResolveSafePath

SpecResolve == InitResolve /\ [][NextResolve]_vars

InitSlug ==
    /\ InitIdle
    /\ raw = NoRaw
    /\ cfg = NotLoaded
    /\ mres = NoResolve
    /\ pres = NoRender
    /\ rres = NoResolveSafe
    /\ xres = NoResize
    /\ \E text \in SlugTexts : sres = [NoSlugify EXCEPT !.op = "call",
                                                       !.text = text]

NextSlug == Slugify

SpecSlug == InitSlug /\ [][NextSlug]_vars

InitResize ==
    /\ InitIdle
    /\ raw = NoRaw
    /\ cfg = NotLoaded
    /\ mres = NoResolve
    /\ pres = NoRender
    /\ rres = NoResolveSafe
    /\ sres = NoSlugify
    /\ \E width \in Dims, height \in Dims, max_width \in Dims :
          xres = [NoResize EXCEPT !.op = "call", !.width = width,
                                  !.height = height,
                                  !.max_width = max_width]

NextResize == ExportResize

SpecResize == InitResize /\ [][NextResize]_vars

(***************************************************************************)
(* The sync command: cli/sync.py                                           *)
(***************************************************************************)
\* exceptions.py: the base class of each exception class
Base(cls) ==
    CASE cls \in {"ConfigError", "ProviderError", "ExportError", "GitError",
                  "StateError", "PathError"} -> "PhotoSyncError"
      [] cls = "AlbumNotFoundError" -> "ProviderError"
      [] cls = "ConfigNotFoundError" -> "ConfigError"
      [] OTHER -> "Exception"

\* isinstance(exc, cls) for an exception of class exc
RECURSIVE IsInstance(_, _)
IsInstance(exc, cls) ==
    \/ exc = cls
    \/ exc # "Exception" /\ IsInstance(Base(exc), cls)

\* an except clause for PathError alone
CaughtPathError(exc) == IsInstance(exc, "PathError")

\* except (ExportError, PhotoSyncError), and except PhotoSyncError of the dry
\* run, which catches the same classes
Caught(exc) ==
    IsInstance(exc, "ExportError") \/ IsInstance(exc, "PhotoSyncError")

Photo(u, a, f) == [uuid |-> u, album_name |-> a, filename |-> f]

\* the photo library: u1 is in albums A and B, album Z is empty, there is no
\* album N
LibraryAlbums == {"A", "B", "D", "S", "U", "Z"}
Library ==
    [a \in LibraryAlbums |->
        CASE a = "A" -> <<Photo("u1", "A", <<"f">>), Photo("u2", "A", <<"g">>)>>
          [] a = "B" -> <<Photo("u1", "B", <<"f">>)>>
          [] a = "D" -> <<Photo("u2", "D", <<"g">>)>>
          [] a = "S" -> <<Photo("u2", "S", <<"g">>)>>
          [] a = "U" -> <<Photo("u2", "U", <<"g">>)>>
          [] a = "Z" -> <<>>]
RunUuids == {"u1", "u2"}

\* provider.list_albums(): sorted by name
list_albums == <<"A", "B", "D", "S", "U", "Z">>

\* provider.get_photos(album_name)
get_photos(album_name) ==
    IF album_name \in LibraryAlbums
    THEN [err |-> "", photos |-> Library[album_name]]
    ELSE [err |-> "AlbumNotFoundError", photos |-> <<>>]

\* the configuration of the run: A, B, Z and N are mapped explicitly, D is
\* mapped to a category that climbs, S to one that starts at the root, U is
\* not mapped
RunConfig ==
    [err |-> "",
     album_mappings |->
        [n \in {<<"A">>, <<"B">>, <<"D">>, <<"S">>, <<"Z">>, <<"N">>} |->
            [category |-> CASE n = <<"A">> -> <<"e">>
                            [] n = <<"B">> -> <<"s">>
                            [] n = <<"D">> -> <<".", ".">>
                            [] n = <<"S">> -> <<"/", "e">>
                            [] n = <<"Z">> -> <<"e">>
                            [] n = <<"N">> -> <<"e">>,
             slug |-> <<"x">>]],
     album_patterns |-> <<>>]

\* the mapping of an album of the run
MappingOf(album_name) == resolve_album(<<album_name>>, RunConfig)

\* the albums of the library that pass a test, in the order of list_albums
RECURSIVE SelectAlbums(_, _, _)
SelectAlbums(albums, by, category) ==
    IF albums = <<>> THEN <<>>
    ELSE LET m == MappingOf(Head(albums))
             keep == IF by = "category" THEN m.category = category
                     ELSE m.source # "unmatched"
         IN  (IF keep THEN <<Head(albums)>> ELSE <<>>)
                 \o SelectAlbums(Tail(albums), by, category)

\* --album given, --category given, or neither
TargetAlbums(album, category) ==
    IF album # <<>> THEN album
    ELSE IF category # None THEN SelectAlbums(list_albums, "category", category)
    ELSE SelectAlbums(list_albums, "all", <<>>)

\* the command lines tried
AlbumOptions == {<<>>, <<"A">>, <<"A", "A">>, <<"A", "B">>, <<"N", "A">>,
                 <<"B", "N">>, <<"D", "B">>, <<"S", "B">>, <<"U", "B">>,
                 <<"Z", "B">>}
CategoryOptions == {None, <<"s">>, <<"q">>}

\* sync() up to the loop: target albums, SyncState(...), the counters
StartSync(album, category, dry_run, force, no_commit, auto_commit, opened) ==
    LET target_albums == TargetAlbums(album, category)
        started == [NoRun EXCEPT !.dry_run = dry_run, !.force = force,
                                 !.no_commit = no_commit,
                                 !.auto_commit = auto_commit,
                                 !.target_albums = target_albums]
    IN
    /\ run.state = "idle"
    /\ IF target_albums = <<>>
       THEN /\ run' = [started EXCEPT !.state = "done", !.exit = 0]
            /\ UNCHANGED <<rows, audit>>
       ELSE IF opened
       THEN /\ run' = [started EXCEPT !.state = "running", !.ai = 1]
            /\ rows' = drows /\ audit' = daudit
       ELSE /\ run' = [started EXCEPT !.state = "aborted", !.exit = 1,
                                      !.raised = "StateError"]
            /\ UNCHANGED <<rows, audit>>
    /\ UNCHANGED <<drows, daudit, clock, last>>
    /\ UNCHANGED <<syncVars, pureVars, prev>>

\* the loops move on: to the next photo of the album or to the next album
Advance(r) ==
    LET photos == get_photos(r.target_albums[r.ai]).photos IN
    IF r.pi >= 1 /\ r.pi < Len(photos)
    THEN [r EXCEPT !.pi = r.pi + 1]
    ELSE [r EXCEPT !.ai = r.ai + 1, !.pi = 0]

\* the head of the album loop: resolve_album, get_photos
FetchAlbum ==
    LET album_name == run.target_albums[run.ai]
        mapping == MappingOf(album_name)
        got == get_photos(album_name)
    IN
    /\ run.state = "running"
    /\ run.ai <= Len(run.target_albums)
    /\ run.pi = 0
    /\ run' = IF mapping.category = <<>> THEN Advance(run)
              ELSE IF got.err = "AlbumNotFoundError"
              THEN Advance([run EXCEPT !.error_count = run.error_count + 1])
              ELSE IF got.photos = <<>> THEN Advance(run)
              ELSE [run EXCEPT !.pi = 1]
    /\ UNCHANGED <<storeVars, syncVars, pureVars, prev>>

\* the loop body puts the path of a skipped photo on the list as well
CountedListsSkips(r, p, result) ==
    LET seen == [r EXCEPT !.processed =
                    Append(r.processed,
                           [uuid |-> p.uuid, album |-> p.album_name,
                            outcome |-> result.outcome])]
        listed == [seen EXCEPT !.exported_paths =
                      IF r.dry_run THEN r.exported_paths
                      ELSE Append(r.exported_paths, result.dest)]
    IN
    CASE result.outcome = "export" ->
             Advance([listed EXCEPT
                 !.exported_count = r.exported_count + 1])
      [] result.outcome = "skip" ->
             Advance([listed EXCEPT !.skipped_count = r.skipped_count + 1])
      [] OTHER ->
             IF Caught(result.outcome)
             THEN Advance([seen EXCEPT !.error_count = r.error_count + 1])
             ELSE [seen EXCEPT !.state = "aborted", !.exit = 1,
                               !.raised = result.outcome]

\* what the loop body does with the result of _sync_photo
Counted(r, p, result) ==
    LET seen == [r EXCEPT !.processed =
                    Append(r.processed,
                           [uuid |-> p.uuid, album |-> p.album_name,
                            outcome |-> result.outcome])]
    IN
    CASE result.outcome = "export" ->
             Advance([seen EXCEPT
                 !.exported_count = r.exported_count + 1,
                 !.exported_paths =
                     IF r.dry_run THEN r.exported_paths
                     ELSE Append(r.exported_paths, result.dest)])
      [] result.outcome = "skip" ->
             Advance([seen EXCEPT !.skipped_count = r.skipped_count + 1])
      [] OTHER ->
             IF Caught(result.outcome)
             THEN Advance([seen EXCEPT !.error_count = r.error_count + 1])
             ELSE [seen EXCEPT !.state = "aborted", !.exit = 1,
                               !.raised = result.outcome]

\* one turn of the photo loop, dry run or not
SyncNextPhoto ==
    LET album_name == run.target_albums[run.ai]
        mapping == MappingOf(album_name)
        photo == get_photos(album_name).photos[run.pi]
    IN
    /\ run.state = "running"
    /\ run.ai <= Len(run.target_albums)
    /\ run.pi >= 1
    /\ sync_photo(photo, mapping.category, mapping.slug, run.dry_run,
                  run.force)
    /\ run' = Counted(run, photo, res')
    /\ UNCHANGED <<pureVars, prev>>

\* after the loops: the summary, git add and git commit, state.close(), and
\* the return
FinishSync ==
    /\ run.state = "running"
    /\ run.ai > Len(run.target_albums)
    /\ IF /\ ~run.dry_run /\ run.exported_paths # <<>>
          /\ ~run.no_commit /\ run.auto_commit
       THEN \E git \in {"ok", "GitError"} :
                run' = IF git = "ok"
                       THEN [run EXCEPT !.state = "done", !.exit = 0,
                                        !.vcs = run.exported_paths]
                       ELSE [run EXCEPT !.state = "aborted", !.exit = 1,
                                        !.raised = "GitError"]
       ELSE run' = [run EXCEPT !.state = "done", !.exit = 0]
    /\ rows' = drows /\ audit' = daudit
    /\ UNCHANGED <<drows, daudit, clock, last>>
    /\ UNCHANGED <<syncVars, pureVars, prev>>

\* the ledger a run may find: empty, or left by an earlier run that exported
\* u1 of album A
RanBefore ==
    /\ rows = {SyncRecord("u1", "A", <<"e">>,
                          <<"e", "/", "x", "/", "f">>,
                          compute_checksum(2), 0)}
    /\ audit = <<AuditEntry(0, "sync",
                            <<"u1", "->", <<"e", "/", "x", "/", "f">>>>)>>
    /\ drows = rows /\ daudit = audit
    /\ clock = 1
    /\ last = NoCall

InitRun ==
    /\ InitStore \/ RanBefore
    /\ src \in [RunUuids -> {Missing, 0, 1, 2}]
    /\ src["u2"] \in {0, 1}
    /\ src["u1"] # 0
    /\ outfiles = NoFiles
    /\ res = NoSync
    /\ run = NoRun
    /\ prev = <<>>
    /\ InitPure

NextRun ==
    \/ \E album \in AlbumOptions, category \in CategoryOptions,
          dry_run \in BOOLEAN, force \in BOOLEAN, no_commit \in BOOLEAN,
          auto_commit \in BOOLEAN, opened \in BOOLEAN :
          StartSync(album, category, dry_run, force, no_commit, auto_commit,
                    opened)
    \/ FetchAlbum
    \/ SyncNextPhoto
    \/ FinishSync

SpecRun == InitRun /\ [][NextRun]_vars

\* the command has ended, by return or by exception (the finally has closed
\* the connection), and is invoked again
Again ==
    /\ run.state \in {"done", "aborted"}
    /\ Len(prev) + 1 < MaxRuns
    /\ prev' = Append(prev, run)
    /\ run' = NoRun
    /\ rows' = drows /\ audit' = daudit
    /\ UNCHANGED <<drows, daudit, clock, last>>
    /\ UNCHANGED <<syncVars, pureVars>>

\* sync commands for album A, one after the other, on originals that stay
\* as they are
NextRuns ==
    \/ \E dry_run \in BOOLEAN, force \in BOOLEAN :
          StartSync(<<"A">>, None, dry_run, force, TRUE, TRUE, TRUE)
    \/ FetchAlbum
    \/ SyncNextPhoto
    \/ FinishSync
    \/ Again

SpecRuns == InitRun /\ [][NextRuns]_vars

(***************************************************************************)
(* Properties of the resize                                                *)
(***************************************************************************)
Resized == xres.op = "resize"

\* n is an integer nearest to num / den, whichever way a half goes
Nearest(n, num, den) ==
    LET d == n * den - num IN 2 * d <= den /\ -2 * d <= den

\* C24: export resizes only when the source is wider than max_width, and the
\* output is then exactly max_width wide and
\* round(height * max_width / width) high; a source at most max_width wide
\* keeps its dimensions
C24_ResizeArithmetic ==
    Resized =>
        IF xres.width > xres.max_width
        THEN /\ xres.out.err = ""
             /\ xres.out.width = xres.max_width
             /\ Nearest(xres.out.height, xres.height * xres.max_width,
                        xres.width)
        ELSE /\ xres.out.err = ""
             /\ xres.out.width = xres.width
             /\ xres.out.height = xres.height

(***************************************************************************)
(* Properties of the album mapper                                          *)
(***************************************************************************)
Resolved == mres.op = "resolve_album"

\* a pattern of literal characters only
Literal(p) == \A i \in 1..Len(p) : p[i] \notin {"^", "$", ".", ".*"}

\* the rules of [sync.patterns], by position in the file, that match the
\* name resolved last
Hits ==
    {i \in 1..Len(raw.patterns) : re_match(raw.patterns[i].pattern, mres.name)}

C9_EmptyIffUnmatched ==
    Resolved =>
        (mres.result.category = <<>> <=> mres.result.source = "unmatched")

(***************************************************************************)
(* Properties of render_output_path                                        *)
(***************************************************************************)
Rendered == pres.op = "render_output_path"

DotDotIn(s) == \E i \in 1..(Len(s) - 1) : SubSeq(s, i, i + 1) = <<".", ".">>

\* every replacement field of the pattern is one of the three
WellFormed(pattern) == \A i \in 1..Len(pattern) : pattern[i] \notin BadTokens

\* the pattern with the three values substituted
Substituted ==
    Format(pres.pattern, pres.category, pres.album_slug, pres.filename).value

\* a value with ".." in it goes into the path
DotDotValueUsed ==
    \/ DotDotIn(pres.category) /\ \E i \in 1..Len(pres.pattern) :
                                      pres.pattern[i] = "{category}"
    \/ DotDotIn(pres.album_slug) /\ \E i \in 1..Len(pres.pattern) :
                                        pres.pattern[i] = "{album_slug}"
    \/ DotDotIn(pres.filename) /\ \E i \in 1..Len(pres.pattern) :
                                      pres.pattern[i] = "{filename}"

ResolvedSafe == rres.op = "resolve_safe_path"

\* the canonical path of the base directory of the call
CanonBase == Normalize(rres.links, rres.base, <<>>)

\* a path with no "", "." or ".." component and no symbolic link on the way
Canonical(links, path) ==
    /\ \A i \in 1..Len(path) : path[i] \notin {<<>>, <<".">>, <<".", ".">>}
    /\ \A i \in 1..Len(path) : SubSeq(path, 1, i) \notin DOMAIN links

\* path is dir or lies below it
Under(dir, path) ==
    Len(dir) <= Len(path) /\ \A i \in 1..Len(dir) : path[i] = dir[i]

\* the relative path has a ".." component
Climbs(relative) == <<".", ".">> \in Range(Split(relative, <<>>))

\* C11: resolve_safe_path either raises PathError or returns a canonical path
\* that is the canonicalised base directory or lies below it, also when the
\* relative path is absolute, climbs with ".." or goes through a symbolic
\* link; it raises only when the canonical path of base / relative is not
\* under the canonical base, and a relative path of plain names on a tree
\* without links resolves to base / relative.
C11_NoEscape ==
    ResolvedSafe =>
        /\ rres.err \in {"", "PathError"}
        /\ rres.err = "" =>
               /\ Canonical(rres.links, rres.value)
               /\ Under(CanonBase, rres.value)
        /\ rres.err = "PathError" =>
               ~Under(CanonBase,
                      Normalize(rres.links,
                                Join(rres.base, rres.relative), <<>>))
        /\ (/\ rres.links = NoLinks
            /\ Canonical(NoLinks, rres.base \o Split(rres.relative, <<>>)))
               => /\ rres.err = ""
                  /\ rres.value = rres.base \o Split(rres.relative, <<>>)

\* a relative path that climbs out of the base directory and a call that
\* raised PathError for it
C11_Witness ==
    /\ ResolvedSafe
    /\ Climbs(rres.relative)
    /\ rres.relative[1] # "/"
    /\ rres.err = "PathError"

(***************************************************************************)
(* Properties of slugify                                                   *)
(***************************************************************************)
Slugified == sres.op = "slugify"

\* lower-case word characters other than "_", joined by single hyphens
IsSlug(s) ==
    /\ \A i \in 1..Len(s) : s[i] \in {"e", "a", "-"}
    /\ s # <<>> => s[1] # "-" /\ s[Len(s)] # "-"
    /\ \A i \in 1..(Len(s) - 1) : ~(s[i] = "-" /\ s[i + 1] = "-")

\* C19: slugify returns a string for every text, slugify of that string is
\* the string itself, and slugify("") is "".
C19_SlugifyIdempotent ==
    Slugified =>
        /\ IsSlug(sres.slug)
        /\ sres.again = sres.slug
        /\ sres.text = <<>> => sres.slug = <<>>

\* a text with a capital, whitespace next to a hyphen and punctuation, whose
\* slug is neither the text nor empty
C19_Witness ==
    /\ Slugified
    /\ \E i \in 1..(Len(sres.text) - 1) :
           {sres.text[i], sres.text[i + 1]} = {" ", "-"}
    /\ "E" \in Range(sres.text)
    /\ sres.slug # sres.text
    /\ "-" \in Range(sres.slug)

(***************************************************************************)
(* Properties of the per-photo sync                                        *)
(***************************************************************************)
\* C1: when a call of _sync_photo with force and dry_run off has exported and
\* the next call, again with both off, is for the same photo and category
\* with the original as it was, that call skips without calling export_photo
\* and the ledger holds exactly one row for the key.
C1_Idempotent ==
    [][(/\ res.op = "sync_photo" /\ res.outcome = "export"
        /\ ~res.dry_run /\ ~res.force
        /\ res'.n # res.n
        /\ res'.uuid = res.uuid /\ res'.album = res.album
        /\ res'.category = res.category
        /\ ~res'.dry_run /\ ~res'.force
        /\ res'.source = res.source)
       => /\ res'.outcome = "skip"
          /\ ~res'.transformed
          /\ Cardinality({r \in rows' :
                             HasKey(r, res.uuid, res.album)}) = 1]_vars

\* C2 as stated: whenever the skip decision, with force off, finds a row and
\* a differing checksum, export_photo and record_sync are called.
C2_AlwaysExports ==
    (res.op = "sync_photo" /\ ~res.force /\ res.changed) =>
        res.transformed /\ res.recorded

\* C2 amended: whenever the skip decision, with force off, finds a row and a
\* differing checksum, the call does not skip; a dry run reports an export
\* and calls neither export_photo nor record_sync, any other call calls
\* export_photo and, when that returns, record_sync.
C2_ChangeDetected ==
    (res.op = "sync_photo" /\ ~res.force /\ res.changed) =>
        /\ res.outcome # "skip"
        /\ res.dry_run =>
               res.outcome = "export" /\ ~res.transformed /\ ~res.recorded
        /\ ~res.dry_run =>
               res.transformed /\ (res.export_end = "ok" <=> res.recorded)

\* a changed original has been exported again and recorded
C2_Witness ==
    /\ res.op = "sync_photo" /\ ~res.force /\ ~res.dry_run
    /\ res.changed
    /\ res.outcome = "export" /\ res.recorded
    /\ get_checksum(rows, res.uuid, res.album)
           = compute_checksum(Encode(res.source))

\* C27: no two rows of the ledger with different (photo_uuid, album_name)
\* have the same output_path: the export of one photo never overwrites the
\* destination recorded for another row.
C27_DestinationsUnique ==
    \A t \in {rows, drows} :
        \A r1, r2 \in t :
            (r1.photo_uuid # r2.photo_uuid \/ r1.album_name # r2.album_name)
                => r1.output_path # r2.output_path

(***************************************************************************)
(* Properties of the sync command                                          *)
(***************************************************************************)
\* this step is a turn of the photo loop
PhotoStep == Len(run'.processed) = Len(run.processed) + 1

\* the album and the photo the loops are at
ThisAlbum == run.target_albums[run.ai]
ThisPhoto == Library[ThisAlbum][run.pi]

\* this step is a get_photos for an album the library does not have
AlbumMissed ==
    /\ run.state = "running" /\ run.pi = 0 /\ run' # run
    /\ run.ai <= Len(run.target_albums)
    /\ MappingOf(ThisAlbum).category # <<>>
    /\ ThisAlbum \notin LibraryAlbums

\* the loops are at the item after the one they were at
MovedOn ==
    /\ run'.state = "running"
    /\ IF run.pi >= 1 /\ run.pi < Len(Library[ThisAlbum])
       THEN run'.ai = run.ai /\ run'.pi = run.pi + 1
       ELSE run'.ai = run.ai + 1 /\ run'.pi = 0

\* the photos of the target albums that are mapped and exist, in the order of
\* the run
RECURSIVE PhotosOf(_)
PhotosOf(albums) ==
    IF albums = <<>> THEN <<>>
    ELSE (IF /\ Head(albums) \in LibraryAlbums
             /\ <<Head(albums)>> \in DOMAIN RunConfig.album_mappings
          THEN Library[Head(albums)] ELSE <<>>) \o PhotosOf(Tail(albums))

\* the target albums that are mapped and do not exist
MissingAlbums(albums) ==
    {i \in 1..Len(albums) : /\ albums[i] \notin LibraryAlbums
                            /\ <<albums[i]>> \in DOMAIN RunConfig.album_mappings}

\* the run got to its end and handed every photo to _sync_photo, a run that
\* was not aborted by another kind of error
RanThrough ==
    /\ Len(run.processed) = Len(PhotosOf(run.target_albums))
    /\ \A i \in 1..Len(run.processed) :
           /\ run.processed[i].uuid = PhotosOf(run.target_albums)[i].uuid
           /\ run.processed[i].album
                  = PhotosOf(run.target_albums)[i].album_name
    /\ run.exported_count + run.skipped_count + run.error_count
           = Len(run.processed)
                 + Cardinality(MissingAlbums(run.target_albums))

\* C12: an ExportError for a photo and an AlbumNotFoundError for an album add
\* one to the error count and the loops move on to the next item; the other
\* counts, the change set, the ledger, the audit log and the originals, which
\* is all that the outcome of another photo depends on, are as they would be
\* without the item; and a run that returns has handed every photo of every
\* target album that is mapped and exists to _sync_photo, in order.
C12_Isolation ==
    /\ [][((PhotoStep /\ res'.outcome = "ExportError") \/ AlbumMissed) =>
             /\ MovedOn
             /\ run'.error_count = run.error_count + 1
             /\ run'.exported_count = run.exported_count
             /\ run'.skipped_count = run.skipped_count
             /\ run'.exported_paths = run.exported_paths
             /\ UNCHANGED <<rows, audit, drows, daudit, src>>]_vars
    /\ [](run.state = "done" => RanThrough)

\* a run that returned after an ExportError for one photo and an export of a
\* photo of a later album
C12_Witness ==
    /\ run.state = "done"
    /\ run.error_count = 1
    /\ \E i, k \in 1..Len(run.processed) :
           /\ i < k
           /\ run.processed[i].outcome = "ExportError"
           /\ run.processed[k].outcome = "export"
           /\ run.processed[k].album # run.processed[i].album

\* the ledger has a row for the photo with the checksum of its original
SameAsRecorded(p) ==
    \E r \in rows : /\ HasKey(r, p.uuid, p.album_name)
                    /\ r.checksum = compute_checksum(src[p.uuid])

\* a run without --dry-run and with the same --force would skip the photo
WouldSkip(p) == ~run.force /\ SameAsRecorded(p)

\* the output path of the photo the loops are at renders and resolves
PathIsGood ==
    LET rel == render_output_path(DefaultPattern,
                                  MappingOf(ThisAlbum).category,
                                  MappingOf(ThisAlbum).slug,
                                  ThisPhoto.filename)
    IN  /\ rel.err = ""
        /\ resolve_safe_path(NoLinks, OutputBase, rel.value).err = ""

\* the skip decision cannot read the original of a photo the ledger has
OriginalGone ==
    /\ ~run.force
    /\ is_synced(rows, ThisPhoto.uuid, ThisPhoto.album_name)
    /\ src[ThisPhoto.uuid] = Missing

\* a dry run calls neither export_photo nor record_sync, changes neither the
\* ledger nor the audit log nor the repository, stages and commits nothing
DryRunIsQuiet ==
    /\ [][(run.dry_run \/ run'.dry_run) =>
             /\ UNCHANGED <<rows, audit, drows, daudit, outfiles>>
             /\ ~res'.transformed /\ ~res'.recorded]_vars
    /\ [](run.dry_run => run.vcs = <<>>)

\* this step is a turn of the photo loop of a dry run
DryPhotoStep == run.dry_run /\ run.state = "running" /\ run.pi >= 1 /\ run' # run

C17_SkipIsQuiet ==
    [][(PhotoStep /\ ~run.force /\ res'.consulted
           /\ SameAsRecorded(ThisPhoto)) =>
         /\ res'.outcome = "skip"
         /\ ~res'.transformed /\ ~res'.recorded
         /\ UNCHANGED <<rows, audit, drows, daudit, clock, outfiles>>
         /\ MovedOn
         /\ run'.exported_paths = run.exported_paths
         /\ run'.exported_count = run.exported_count
         /\ run'.error_count = run.error_count
         /\ run'.skipped_count = run.skipped_count + 1]_vars

\* a run without --dry-run that skipped one photo, exported another one and
\* committed the exported one only
C17_Witness ==
    /\ run.state = "done" /\ ~run.dry_run /\ ~run.force
    /\ run.skipped_count = 1 /\ run.exported_count = 1
    /\ run.processed[1].outcome = "skip"
    /\ Len(run.exported_paths) = 1
    /\ run.vcs = run.exported_paths

\* C18: with --force and without --dry-run every photo whose output path
\* renders and resolves goes to export_photo, whether or not the ledger has a
\* row for it and whatever checksum the row has; is_synced, get_checksum and
\* compute_checksum of the original are not called; record_sync is called
\* exactly when export_photo returns, with the checksum of the exported file.
C18_ForceExports ==
    [][(run.state = "running" /\ run.pi >= 1 /\ run' # run
           /\ run.force /\ ~run.dry_run /\ PathIsGood) =>
         /\ PhotoStep
         /\ ~res'.consulted
         /\ res'.transformed
         /\ res'.recorded <=> res'.export_end = "ok"
         /\ res'.recorded =>
                /\ last'.op = "record_sync"
                /\ last'.uuid = ThisPhoto.uuid
                /\ last'.album = ThisPhoto.album_name
                /\ last'.checksum
                       = compute_checksum(Encode(src[ThisPhoto.uuid]))
         /\ res'.outcome \in {"export", "ExportError", "sqlite3.Error"}
         /\ res'.outcome = "export" <=>
                (res'.recorded /\ last'.fault = "none")]_vars

\* a forced call exported and recorded a photo for which the ledger had a
\* row with the very checksum of the original
C18_Witness ==
    /\ res.op = "sync_photo" /\ res.force /\ ~res.dry_run
    /\ res.outcome = "export" /\ res.recorded
    /\ last.op = "record_sync" /\ last.existed
    /\ last.old_checksum = compute_checksum(res.source)
    /\ run.exported_count >= 1

\* C20: in one run no photo of an album is handed to _sync_photo twice, and
\* each one that is handed over ends as skipped, exported or errored.
C20_OncePerRun ==
    /\ \A i, k \in 1..Len(run.processed) :
           (/\ run.processed[i].uuid = run.processed[k].uuid
            /\ run.processed[i].album = run.processed[k].album) => i = k
    /\ \A i \in 1..Len(run.processed) :
           run.processed[i].outcome # ""

\* this step is a turn of the photo loop
PhotoTurn == run.state = "running" /\ run.pi >= 1 /\ run' # run

\* the output path of the photo the loops are at cannot be formatted, has
\* ".." in it, or leads out of the output base
PathUnsafe ==
    LET f == Format(DefaultPattern, MappingOf(ThisAlbum).category,
                    MappingOf(ThisAlbum).slug, ThisPhoto.filename)
    IN  \/ f.err # ""
        \/ HasDotDot(f.value)
        \/ ~Under(OutputBase,
                  Normalize(NoLinks, Join(OutputBase, f.value), <<>>))

\* C23: a photo whose output path fails to render or to resolve ends in a
\* PathError before anything is done for it: the ledger is not asked, the
\* original is not read, export_photo and record_sync are not called, the
\* ledger, the audit log and the repository are as they were, _sync_photo
\* has no destination path, and the photo is counted as an error and as
\* nothing else.
C23_PathErrorStops ==
    [][(PhotoTurn /\ PathUnsafe) =>
         /\ PhotoStep
         /\ res'.outcome = "PathError"
         /\ ~res'.consulted /\ ~res'.transformed /\ ~res'.recorded
         /\ res'.dest = <<>>
         /\ UNCHANGED <<rows, audit, drows, daudit, clock, last, outfiles, src>>
         /\ MovedOn
         /\ run'.error_count = run.error_count + 1
         /\ run'.exported_count = run.exported_count
         /\ run'.skipped_count = run.skipped_count
         /\ run'.exported_paths = run.exported_paths]_vars

\* a run without --dry-run that returned after a PathError of
\* render_output_path (album D) and one of resolve_safe_path (album S)
C23_Witness ==
    /\ run.state = "done" /\ ~run.dry_run
    /\ run.error_count >= 2
    /\ \E i, k \in 1..Len(run.processed) :
           /\ run.processed[i].album = "D"
           /\ run.processed[i].outcome = "PathError"
           /\ run.processed[k].album = "S"
           /\ run.processed[k].outcome = "PathError"
    /\ res.op = "sync_photo" /\ res.album = "S" /\ res.dest = <<>>
    /\ res.category = <<"/", "e">>

\* record_sync was called in this step and its commit() returned
Committed == res'.recorded /\ last'.op = "record_sync" /\ last'.fault = "none"

\* the database file has a row for the key with the checksum of the file at
\* the destination
CommittedRow(t, files, u, a, dest) ==
    /\ dest \in DOMAIN files
    /\ \E r \in t : /\ HasKey(r, u, a)
                    /\ r.checksum = compute_checksum(files[dest])

DestOf(album_name, uuid) ==
    LET p == CHOOSE q \in Range(Library[album_name]) : q.uuid = uuid
        rel == render_output_path(DefaultPattern,
                                  MappingOf(album_name).category,
                                  MappingOf(album_name).slug, p.filename)
    IN  Normalize(NoLinks, Join(OutputBase, rel.value), <<>>)

\* the destinations of the photos that ended as exported, in order
RECURSIVE ExportedDests(_)
ExportedDests(processed) ==
    IF processed = <<>> THEN <<>>
    ELSE (IF Head(processed).outcome = "export"
          THEN <<DestOf(Head(processed).album, Head(processed).uuid)>>
          ELSE <<>>) \o ExportedDests(Tail(processed))

\* the run has staged and committed
Staged == run.vcs # <<>>

\* C25: a run stages and commits only without --dry-run and --no-commit,
\* with git.auto_commit on and after at least one photo was exported and
\* recorded, and a run that returns under these conditions has done so; the
\* list it stages is the list of the absolute destinations of the photos
\* counted as exported, one for each in the order of the run, with none for
\* a skipped or errored photo.
C25_VcsHandoff ==
    /\ Staged =>
           /\ run.state = "done"
           /\ ~run.dry_run /\ ~run.no_commit /\ run.auto_commit
           /\ run.exported_count >= 1
           /\ \E i \in 1..Len(run.processed) :
                  /\ run.processed[i].outcome = "export"
                  /\ is_synced(drows, run.processed[i].uuid,
                               run.processed[i].album)
           /\ run.vcs = ExportedDests(run.processed)
           /\ Len(run.vcs) = run.exported_count
           /\ \A i \in 1..Len(run.vcs) :
                  Under(OutputBase, run.vcs[i]) /\ run.vcs[i] # OutputBase
    /\ (/\ run.state = "done" /\ ~run.dry_run /\ ~run.no_commit
        /\ run.auto_commit /\ run.exported_count >= 1) => Staged
    /\ ~run.dry_run =>
           /\ run.exported_paths = ExportedDests(run.processed)
           /\ Len(run.exported_paths) = run.exported_count

\* a run staged and committed the one photo it exported, after it skipped a
\* photo and counted an error for another one
C25_Witness ==
    /\ Staged
    /\ Len(run.vcs) = 1
    /\ run.exported_count = 1
    /\ run.skipped_count >= 1 /\ run.error_count >= 1
    /\ Len(run.processed) >= 3

\* the run printed its summary: it returned, or git failed after it
ReachedSummary ==
    \/ run.state = "done" /\ run.target_albums # <<>>
    \/ run.state = "aborted" /\ run.raised = "GitError"

\* C26: in a run that reaches its summary exported + skipped + errors is the
\* number of photos get_photos returned for the target albums that were
\* processed plus the number of target albums that were not found; and no
\* failure while one photo is processed, a failure to read the original for
\* the checksum comparison included, ends the run before its summary.
C26_CounterAccounting ==
    /\ ReachedSummary =>
           run.exported_count + run.skipped_count + run.error_count
               = Len(PhotosOf(run.target_albums))
                     + Cardinality(MissingAlbums(run.target_albums))
    /\ run.state = "aborted" => run.raised \in {"GitError", "StateError"}

\* the export of the photo failed in the run before this one
FailedBefore(p) ==
    /\ prev # <<>>
    /\ \E i \in 1..Len(prev[Len(prev)].processed) :
           prev[Len(prev)].processed[i]
               = [uuid |-> p.uuid, album |-> p.album_name,
                  outcome |-> "ExportError"]

\* C21: a photo whose export fails is not recorded in that run (the ledger
\* and the audit log are as they were) and the run moves on without trying
\* it again; in the next run, with --force off, the photo is not skipped: it
\* goes to export_photo again (in a dry run, it is reported as an export).
C21_FailedExportRetried ==
    /\ [][(PhotoStep /\ res'.outcome = "ExportError") =>
             /\ ~res'.recorded
             /\ UNCHANGED <<rows, audit, drows, daudit>>
             /\ MovedOn]_vars
    /\ [][(PhotoTurn /\ ~run.force /\ FailedBefore(ThisPhoto)) =>
             /\ res'.outcome # "skip"
             /\ IF run.dry_run THEN res'.outcome = "export"
                ELSE res'.transformed]_vars

\* the run before this one was started with --force
ForcedBefore == prev # <<>> /\ prev[Len(prev)].force

\* C21 with its condition: the next run, with --force off, exports the photo
\* again when the run in which the export failed was not forced or the
\* ledger has no row for the photo.
C21_RetriedUnlessForced ==
    /\ [][(PhotoStep /\ res'.outcome = "ExportError") =>
             /\ ~res'.recorded
             /\ UNCHANGED <<rows, audit, drows, daudit>>
             /\ MovedOn]_vars
    /\ [][(/\ PhotoTurn /\ ~run.force /\ FailedBefore(ThisPhoto)
           /\ \/ ~ForcedBefore
              \/ ~is_synced(rows, ThisPhoto.uuid, ThisPhoto.album_name)) =>
             /\ res'.outcome # "skip"
             /\ IF run.dry_run THEN res'.outcome = "export"
                ELSE res'.transformed]_vars

\* the export of a photo failed in a run without --force, which went on to
\* the end; the next run, without --force, exported and recorded the photo
C21_Witness ==
    /\ Len(prev) = 1 /\ ~prev[1].force /\ ~prev[1].dry_run
    /\ prev[1].state = "done" /\ prev[1].error_count >= 1
    /\ ~run.force /\ ~run.dry_run
    /\ res.op = "sync_photo" /\ res.outcome = "export" /\ res.recorded
    /\ run.processed # <<>>
    /\ run.processed[Len(run.processed)]
           = [uuid |-> res.uuid, album |-> res.album, outcome |-> "export"]
    /\ \E i \in 1..Len(prev[1].processed) :
           prev[1].processed[i]
               = [uuid |-> res.uuid, album |-> res.album,
                  outcome |-> "ExportError"]
    /\ is_synced(drows, res.uuid, res.album)

\* C14: a run that counted an error ends with an exit status other than 0,
\* and a run ends with status 0 only when it counted none.
C14_ErrorsSignalled ==
    run.state \in {"done", "aborted"} =>
        /\ run.error_count > 0 => run.exit # 0
        /\ run.exit = 0 => run.error_count = 0

(***************************************************************************)
(* Properties of the ledger                                                *)
(***************************************************************************)
UniqueKeys(t) ==
    \A r1, r2 \in t :
        (r1.photo_uuid = r2.photo_uuid /\ r1.album_name = r2.album_name)
            => r1 = r2

Row(t, u, a) == CHOOSE r \in t : HasKey(r, u, a)

\* the last call was a write that returned without raising
Succeeded(op) == last.op = op /\ last.fault = "none"

\* C3: the ledger (through the connection and on disk) never holds two rows
\* for one (photo_uuid, album_name); a record_sync that returns for a key that
\* already had a row leaves count() as it was and get_checksum returns the
\* checksum just passed.
C3_UpsertUnique ==
    /\ UniqueKeys(rows)
    /\ UniqueKeys(drows)
    /\ (Succeeded("record_sync") /\ last.existed) =>
           /\ count(rows) = last.old_count
           /\ get_checksum(rows, last.uuid, last.album) = last.checksum

\* a second record_sync for a key, with another checksum, has returned
C3_Witness ==
    /\ Succeeded("record_sync")
    /\ last.existed
    /\ last.old_checksum # last.checksum
    /\ count(rows) = 1

\* C4: after a record_sync that returns for a key that already had a row, the
\* row carries the category, output path, checksum and timestamp of this
\* call, and get_records_by_category finds it under the new category and not
\* under the old one.
C4_OverwriteAll ==
    (Succeeded("record_sync") /\ last.existed) =>
        LET r == Row(rows, last.uuid, last.album) IN
        /\ r.category = last.category
        /\ r.output_path = last.output_path
        /\ r.checksum = last.checksum
        /\ r.synced_at = clock - 1
        /\ r \in get_records_by_category(rows, last.category)
        /\ (last.old_category # last.category =>
               r \notin get_records_by_category(rows, last.old_category))

\* the write described by last', applied to a table and a log
Applied(t) ==
    IF last'.op = "record_sync"
    THEN Upsert(t, last'.uuid, last'.album, last'.category,
                last'.output_path, last'.checksum, clock)
    ELSE Delete(t, last'.uuid, last'.album)

Logged(l) ==
    IF last'.op = "record_sync"
    THEN Append(l, AuditEntry(clock, "sync",
                              <<last'.uuid, "->", last'.output_path>>))
    ELSE Append(l, AuditEntry(clock, "remove",
                              <<last'.uuid, "from", last'.album>>))

IsWrite == clock' # clock /\ last'.op \in {"record_sync", "remove_record"}

\* C5: a record_sync or remove_record that raises leaves the database file as
\* it was, and one that returns makes durable its own row change and its own
\* audit entry and nothing else.
C5_Atomic ==
    [][IsWrite =>
         IF last'.fault = "none"
         THEN drows' = Applied(drows) /\ daudit' = Logged(daudit)
         ELSE drows' = drows /\ daudit' = daudit]_vars

\* C6: the committed audit log only grows at its end, by exactly one entry for
\* each record_sync (action sync) or remove_record (action remove) that
\* returns, and not at all on a read.
C6_AppendOnly ==
    [][/\ IsPrefix(daudit, daudit')
       /\ (IsWrite /\ last'.fault = "none") => daudit' = Logged(daudit)
       /\ last'.op = "read" => daudit' = daudit]_vars

\* C16: a remove_record that returns leaves no row for its key and every other
\* row as it was: for a key that had a row count() is one less, for a key that
\* had none the table is unchanged; either way the audit log has one more
\* entry, at its end, with action remove.
C16_RemoveExact ==
    [][(clock' # clock /\ last'.op = "remove_record"
           /\ last'.fault = "none") =>
         /\ ~is_synced(rows', last'.uuid, last'.album)
         /\ rows' \subseteq rows
         /\ \A r \in rows :
                ~(r.photo_uuid = last'.uuid /\ r.album_name = last'.album)
                    => r \in rows'
         /\ IF is_synced(rows, last'.uuid, last'.album)
            THEN count(rows') = count(rows) - 1
            ELSE rows' = rows
         /\ Len(audit') = Len(audit) + 1
         /\ SubSeq(audit', 1, Len(audit)) = audit
         /\ audit'[Len(audit')].action = "remove"]_vars

\* a remove_record has returned for a key that had a row, and a row of the
\* same photo in another album is still there
C16_Witness ==
    /\ Succeeded("remove_record")
    /\ last.existed
    /\ count(rows) = last.old_count - 1
    /\ \E r \in rows : r.photo_uuid = last.uuid /\ r.album_name # last.album
    /\ audit[Len(audit)].action = "remove"

\* C15: a call of SyncState that fails, the constructor, a read or a write,
\* raises StateError.
C15_StateErrorOnly ==
    last.fault # "none" => last.raised = "StateError"

====
